---- MODULE Spec2Model ----
(***************************************************************************)
(* State-machine model of the bumblebees gameplay core.                    *)
(*                                                                         *)
(*  - entities/enemy.rs, entities/bullet.rs, systems/collision.rs and      *)
(*    systems/wave.rs are library functions; they are exercised by a call  *)
(*    harness (SpecCollision, SpecDamage, SpecWave) that builds argument    *)
(*    vectors the way the unit tests of those files do and then calls the  *)
(*    function.                                                            *)
(*  - main.rs is the event handler of the running game (MainState); it is  *)
(*    modelled by Spec (from MainState::new) and SpecUpdate (the handlers  *)
(*    applied to MainState values).                                        *)
(*                                                                         *)
(* Positions are f32 pixels in the source.  Every position the model       *)
(* builds is an integer and every dt is a whole number of half seconds, so *)
(* speed * dt is an integer and all f32 arithmetic below is exact; the     *)
(* type multipliers of enemy.rs are tenths, and Enemy::update is called    *)
(* where its step is a whole number of pixels.  A square root is kept      *)
(* exact (see sqrt).                                                       *)
(***************************************************************************)
EXTENDS Integers, Sequences, FiniteSets, TLC

VARIABLES
    enemies,          \* Vec<Enemy>   (collision.rs argument / MainState.enemies / generate_wave result)
    bullets,          \* Vec<Bullet>  (collision.rs argument / MainState.bullets)
    destroyed_info,   \* value returned by the last process_collisions call
    enemies_in,       \* `enemies` as it was on entry to the last process_collisions call
    bullets_in,       \* `bullets` as it was on entry to the last process_collisions call
    bullets_to_remove, \* `bullets_to_remove` of the last process_collisions call, after sort and dedup
    collided,         \* value returned by the last check_collision call
    handed,           \* the vectors have been handed to process_collisions
    enemy,            \* a single Enemy the harness calls take_damage on
    destroyed,        \* value returned by the last take_damage call on `enemy`
    calls,            \* number of take_damage calls made on `enemy`
    player_x,         \* MainState.player_x
    enemy_direction,  \* MainState.enemy_direction
    enemy_speed,      \* MainState.enemy_speed
    wave,             \* MainState.wave / the argument of generate_wave
    state,            \* MainState.state
    state_before,     \* MainState.state on entry to the last handler call
    ticks,            \* number of update calls the host has made
    shots,            \* number of shoot calls the host has made (SpecFlight)
    frame,            \* dt and key state the host passed to the last update call
    op                \* the operation that produced the current state

vars == <<enemies, bullets, destroyed_info, enemies_in, bullets_in,
          bullets_to_remove, collided, handed, enemy, destroyed, calls, player_x,
          enemy_direction, enemy_speed, wave, state, state_before, ticks, shots,
          frame, op>>

callVars == <<destroyed_info, enemies_in, bullets_in, bullets_to_remove, collided,
              handed>>
damageVars == <<enemy, destroyed, calls>>
mainVars == <<player_x, enemy_direction, enemy_speed, wave, state, state_before,
              ticks, shots, frame>>

(***************************************************************************)
(* Bounds of the model.                                                    *)
(***************************************************************************)
MaxEnemies == 2
MaxBullets == 2
MaxCalls == 5
MaxWave == 60
MaxTicks == 2
MaxEnemyY == 500
MaxSessionWave == 3
MaxShots == 2
MaxBulletRise == 60
MaxEnemyX == 180

(***************************************************************************)
(* Generic helpers.                                                        *)
(***************************************************************************)
SeqsUpTo(S, n) == UNION {[1..m -> S] : m \in 0..n}

\* The sequence s without the elements at the indices in D.
RECURSIVE OmitFrom(_, _, _)
OmitFrom(s, D, k) ==
    IF k > Len(s) THEN <<>>
    ELSE IF k \in D THEN OmitFrom(s, D, k + 1)
    ELSE <<s[k]>> \o OmitFrom(s, D, k + 1)

Omit(s, D) == OmitFrom(s, D, 1)

RECURSIVE SumHealth(_)
SumHealth(es) ==
    IF es = <<>> THEN 0 ELSE Head(es).health + SumHealth(Tail(es))

\* f32::sqrt on a non-negative whole number n.  The root of a whole number
\* is whole or irrational, so it is not rounded to a number the model can
\* hold: it is kept exact, as "the root of n".
sqrt(n) == [root_of |-> n]

\* `d < r` for a root d and a whole number r >= 0: the root of n is below r
\* exactly when n is below r * r.  (f32::sqrt rounds the real root to the
\* nearest f32; for n < 2^24 the rounded root is on the same side of every
\* whole number as the real root, and equal to it only when n is a square.)
f32_lt(d, r) == d.root_of < r * r

(***************************************************************************)
(* entities/enemy.rs                                                       *)
(***************************************************************************)
EnemyType == {"Standard", "Fast", "Tank", "Swooper"}

max_health(t) ==
    CASE t = "Standard" -> 1
      [] t = "Fast" -> 1
      [] t = "Tank" -> 3
      [] t = "Swooper" -> 1

\* EnemyType::speed_multiplier, in tenths: 1.0, 1.5, 0.7, 1.0
speed_multiplier(t) ==
    CASE t = "Standard" -> 10
      [] t = "Fast" -> 15
      [] t = "Tank" -> 7
      [] t = "Swooper" -> 10

\* EnemyType::points
points(t) ==
    CASE t = "Standard" -> 10
      [] t = "Fast" -> 20
      [] t = "Tank" -> 50
      [] t = "Swooper" -> 30

Enemy_new(x, y, direction, enemy_type) ==
    [x |-> x, y |-> y, direction |-> direction, enemy_type |-> enemy_type,
     health |-> max_health(enemy_type)]

\* Enemy::update: `self.direction * speed * dt` with
\* speed = base_speed * speed_multiplier, in twentieths of a pixel (the
\* multiplier is in tenths and dt in half seconds).
Enemy_step(e, base_speed, dt) ==
    e.direction * (base_speed * speed_multiplier(e.enemy_type)) * dt

\* The step of Enemy::update is a whole number of pixels.  The positions the
\* harness holds are whole pixels, so it calls update with a base speed and a
\* dt for which the step is whole: at 50 px/s a Tank moves 35 px in 1 s (and
\* 17.5 px in 0.5 s).
whole_step(e, base_speed, dt) == Enemy_step(e, base_speed, dt) % 20 = 0

\* A position of n twentieths of a pixel, in pixels: a whole number of pixels
\* as that number, any other position exactly, as the fraction <<n, 20>>
\* (117.5 is <<2350, 20>>).
pixels(n) == IF n % 20 = 0 THEN n \div 20 ELSE <<n, 20>>

\* Enemy::update(&mut self, base_speed, dt) : `self` after the call, for an
\* enemy on a whole pixel.
Enemy_update(e, base_speed, dt) ==
    [e EXCEPT !.x = pixels(20 * @ + Enemy_step(e, base_speed, dt))]

\* Mutant of take_damage: the result is "this call took the last health
\* point" instead of "health is 0 now".
take_damage_last_point(e) ==
    LET h == IF e.health > 0 THEN e.health - 1 ELSE e.health
    IN [self |-> [e EXCEPT !.health = h], ret |-> e.health = 1]

\* Mutant of take_damage: the health > 0 guard is dropped, so the decrement
\* goes below 0.
take_damage_unguarded(e) ==
    LET h == e.health - 1
    IN [self |-> [e EXCEPT !.health = h], ret |-> h = 0]

\* Mutant of take_damage: two health points per call.
take_damage_double(e) ==
    LET h == IF e.health > 1 THEN e.health - 2 ELSE 0
    IN [self |-> [e EXCEPT !.health = h], ret |-> h = 0]

\* Enemy::take_damage(&mut self) -> bool : `self` after the call and the result.
take_damage(e) ==
    LET h == IF e.health > 0 THEN e.health - 1 ELSE e.health
    IN [self |-> [e EXCEPT !.health = h], ret |-> h = 0]

\* Mutant of is_destroyed: off by one, an enemy on its last health point
\* already counts as destroyed.
is_destroyed_off_by_one(e) == e.health <= 1

\* Mutant of is_destroyed: `<` for `==`, which no u32 satisfies.
is_destroyed_below_zero(e) == e.health < 0

\* Enemy::is_destroyed
is_destroyed(e) == e.health = 0

(***************************************************************************)
(* entities/bullet.rs                                                      *)
(***************************************************************************)
Bullet_new(x, y) == [x |-> x, y |-> y]

\* Bullet::update(&mut self, dt) : `self` after the call; dt in half seconds.
\* BULLET_SPEED is constants::BULLET_SPEED, 500 as in main.rs.
Bullet_update(b, dt) == [b EXCEPT !.y = @ - (500 * dt) \div 2]

\* Bullet::is_out_of_bounds
is_out_of_bounds(b) == b.y < 0

(***************************************************************************)
(* systems/collision.rs                                                    *)
(***************************************************************************)
COLLISION_RADIUS == 20

\* Mutant of check_collision: a pair at exactly the radius collides.
check_collision_inclusive(bullet, e) ==
    LET dx == e.x - bullet.x
        dy == e.y - bullet.y
    IN sqrt(dx * dx + dy * dy).root_of <= COLLISION_RADIUS * COLLISION_RADIUS

\* check_collision(bullet: &Bullet, enemy: &Enemy) -> bool
check_collision(bullet, e) ==
    LET dx == e.x - bullet.x
        dy == e.y - bullet.y
    IN f32_lt(sqrt(dx * dx + dy * dy), COLLISION_RADIUS)

\* Mutant of scan_bullets: the loop does not break at the first bullet in
\* range, so the last bullet in range is the one recorded.
RECURSIVE scan_bullets_last(_, _, _)
scan_bullets_last(bs, e, bullet_idx) ==
    IF bullet_idx >= Len(bs) THEN -1
    ELSE LET later == scan_bullets_last(bs, e, bullet_idx + 1)
         IN IF later >= 0 THEN later
            ELSE IF check_collision(bs[bullet_idx + 1], e) THEN bullet_idx
            ELSE -1

\* The inner `for (bullet_idx, bullet) in bullets.iter().enumerate()` loop of
\* process_collisions for one enemy, from bullet_idx on: the index (0-based)
\* of the bullet at which the loop breaks, or -1 when it runs to the end.
RECURSIVE scan_bullets(_, _, _)
scan_bullets(bs, e, bullet_idx) ==
    IF bullet_idx >= Len(bs) THEN -1
    ELSE IF check_collision(bs[bullet_idx + 1], e) THEN bullet_idx
    ELSE scan_bullets(bs, e, bullet_idx + 1)

\* Vec::remove(idx), idx 0-based.
vec_remove(v, idx) ==
    [k \in 1..(Len(v) - 1) |-> IF k <= idx THEN v[k] ELSE v[k + 1]]

\* Mutant of enemy_loop: i is incremented after a removal too, so the enemy
\* that slid into the removed one's place is skipped.
RECURSIVE enemy_loop_skip(_, _)
enemy_loop_skip(st, bs) ==
    IF st.i >= Len(st.enemies) THEN st
    ELSE LET e == st.enemies[st.i + 1]
             bullet_idx == scan_bullets(bs, e, 0)
             hit == bullet_idx >= 0
             td == take_damage(e)
             es1 == IF hit THEN [st.enemies EXCEPT ![st.i + 1] = td.self]
                           ELSE st.enemies
             info1 == IF hit /\ td.ret
                      THEN Append(st.destroyed_info,
                                  <<td.self.x, td.self.y, points(td.self.enemy_type)>>)
                      ELSE st.destroyed_info
             rem1 == IF hit THEN Append(st.bullets_to_remove, bullet_idx)
                            ELSE st.bullets_to_remove
         IN IF hit /\ is_destroyed(es1[st.i + 1])
            THEN enemy_loop_skip([enemies |-> vec_remove(es1, st.i), i |-> st.i + 1,
                                  destroyed_info |-> info1, bullets_to_remove |-> rem1], bs)
            ELSE enemy_loop_skip([enemies |-> es1, i |-> st.i + 1,
                                  destroyed_info |-> info1, bullets_to_remove |-> rem1], bs)

\* The `while i < enemies.len()` loop.  st = [enemies, i, destroyed_info,
\* bullets_to_remove]; bs is the (unchanged) bullet vector.
RECURSIVE enemy_loop(_, _)
enemy_loop(st, bs) ==
    IF st.i >= Len(st.enemies) THEN st
    ELSE LET e == st.enemies[st.i + 1]
             bullet_idx == scan_bullets(bs, e, 0)
             hit == bullet_idx >= 0
             td == take_damage(e)
             es1 == IF hit THEN [st.enemies EXCEPT ![st.i + 1] = td.self]
                           ELSE st.enemies
             info1 == IF hit /\ td.ret
                      THEN Append(st.destroyed_info,
                                  <<td.self.x, td.self.y, points(td.self.enemy_type)>>)
                      ELSE st.destroyed_info
             rem1 == IF hit THEN Append(st.bullets_to_remove, bullet_idx)
                            ELSE st.bullets_to_remove
         IN IF hit /\ is_destroyed(es1[st.i + 1])
            THEN enemy_loop([enemies |-> vec_remove(es1, st.i), i |-> st.i,
                             destroyed_info |-> info1, bullets_to_remove |-> rem1], bs)
            ELSE enemy_loop([enemies |-> es1, i |-> st.i + 1,
                             destroyed_info |-> info1, bullets_to_remove |-> rem1], bs)

\* slice::sort_unstable on a Vec<usize>: ascending order (insertion of the
\* head into the sorted tail).
RECURSIVE insert_sorted(_, _)
insert_sorted(x, s) ==
    IF s = <<>> THEN <<x>>
    ELSE IF x <= Head(s) THEN <<x>> \o s
    ELSE <<Head(s)>> \o insert_sorted(x, Tail(s))

RECURSIVE sort_unstable(_)
sort_unstable(s) ==
    IF s = <<>> THEN <<>> ELSE insert_sorted(Head(s), sort_unstable(Tail(s)))

\* Mutant of dedup: the call is left out.
dedup_skipped(s) == s

\* Vec::dedup: removes consecutive repeated elements.
RECURSIVE dedup(_)
dedup(s) ==
    IF Len(s) <= 1 THEN s
    ELSE IF s[1] = s[2] THEN dedup(Tail(s))
    ELSE <<s[1]>> \o dedup(Tail(s))

\* `for &idx in bullets_to_remove.iter().rev() { bullets.remove(idx); }`
RECURSIVE remove_rev(_, _)
remove_rev(bs, idxs) ==
    IF idxs = <<>> THEN bs
    ELSE remove_rev(vec_remove(bs, idxs[Len(idxs)]), SubSeq(idxs, 1, Len(idxs) - 1))

\* process_collisions(&mut enemies, &mut bullets) -> Vec<(f32, f32, u32)>
process_collisions(es, bs) ==
    LET st == enemy_loop([enemies |-> es, i |-> 0, destroyed_info |-> <<>>,
                          bullets_to_remove |-> <<>>], bs)
        to_remove == dedup(sort_unstable(st.bullets_to_remove))
    IN [enemies |-> st.enemies,
        bullets |-> remove_rev(bs, to_remove),
        destroyed_info |-> st.destroyed_info,
        bullets_to_remove |-> to_remove]

(***************************************************************************)
(* systems/wave.rs                                                         *)
(***************************************************************************)
columns == 10

\* Enemy::new(x, y) as wave.rs:38 calls it: only the position is given.
Enemy_at(x, y) == [x |-> x, y |-> y]

\* `for j in 0..rows { enemies.push(..) }` of column i, from j on: the
\* enemies pushed, in order.
RECURSIVE wave_rows(_, _, _)
wave_rows(i, j, rows) ==
    IF j >= rows THEN <<>>
    ELSE <<Enemy_at(50 + i * 60, 100 + j * 50)>> \o wave_rows(i, j + 1, rows)

\* `for i in 0..columns { .. }`, from i on: the enemies pushed, in order.
RECURSIVE wave_columns(_, _)
wave_columns(i, rows) ==
    IF i >= columns THEN <<>>
    ELSE wave_rows(i, 0, rows) \o wave_columns(i + 1, rows)

\* Mutant of generate_wave: the two loops are swapped (row by row).
generate_wave_row_major(w) ==
    [k \in 1..((2 + w) * columns) |->
        Enemy_at(50 + ((k - 1) % columns) * 60, 100 + ((k - 1) \div columns) * 50)]

\* generate_wave(wave: u32) -> Vec<Enemy>
generate_wave(w) == wave_columns(0, 2 + w)

(***************************************************************************)
(* main.rs                                                                 *)
(***************************************************************************)
SCREEN_WIDTH == 800
SCREEN_HEIGHT == 600
PLAYER_SPEED == 300
BULLET_SPEED == 500
INITIAL_ENEMY_SPEED == 50
DEFENDER_LINE == 100

\* speed * dt, dt counted in half seconds (dt = 1 is 0.5 s): every speed of
\* the game is even, so the product is an integer number of pixels.
mul_dt(speed, dt) == (speed * dt) \div 2

\* Mutant of clamp: only the upper limit is applied.
clamp_upper_only(v, lo, hi) == IF v > hi THEN hi ELSE v

\* f32::clamp
clamp(v, lo, hi) == IF v < lo THEN lo ELSE IF v > hi THEN hi ELSE v

\* entities/enemy.rs: Enemy::has_breached_defender_line
has_breached_defender_line(e) == e.y > SCREEN_HEIGHT - DEFENDER_LINE

\* MainState::generate_enemies: `for j in 0..3` of column i, from j on: the
\* enemies pushed, in order.
RECURSIVE enemies_rows(_, _)
enemies_rows(i, j) ==
    IF j >= 3 THEN <<>>
    ELSE <<[x |-> 50 + i * 60, y |-> 50 + j * 50]>> \o enemies_rows(i, j + 1)

\* MainState::generate_enemies: `for i in 0..10`, from i on.
RECURSIVE enemies_columns(_)
enemies_columns(i) ==
    IF i >= 10 THEN <<>>
    ELSE enemies_rows(i, 0) \o enemies_columns(i + 1)

\* MainState::generate_enemies(wave): the argument is not used.
generate_enemies(w) == enemies_columns(0)

\* Mutant of game_over: update never returns early.
game_over_ignored == FALSE

\* `matches!(self.state, GameState::GameOver)` at the head of update.
game_over == state = "GameOver"

\* update, player: left, then right, then the clamp.
moved_player(dt, left, right) ==
    LET a == IF left THEN player_x - mul_dt(PLAYER_SPEED, dt) ELSE player_x
        b == IF right THEN a + mul_dt(PLAYER_SPEED, dt) ELSE a
    IN clamp(b, 25, SCREEN_WIDTH - 25)

\* update: `enemy.x += self.enemy_direction * self.enemy_speed * dt`
moved_enemies(dt) ==
    [k \in 1..Len(enemies) |->
        [enemies[k] EXCEPT !.x = @ + enemy_direction * mul_dt(enemy_speed, dt)]]

\* Mutant of at_edge: an enemy exactly on a margin does not count.
at_edge_strict(es) == \E k \in 1..Len(es) : es[k].x < 25 \/ es[k].x > SCREEN_WIDTH - 25

\* update: `.any(|e| e.x <= 25.0 || e.x >= SCREEN_WIDTH - 25.0)`
at_edge(es) == \E k \in 1..Len(es) : es[k].x <= 25 \/ es[k].x >= SCREEN_WIDTH - 25

\* update: `enemy.y += 20.0` for every enemy
dropped(es) == [k \in 1..Len(es) |-> [es[k] EXCEPT !.y = @ + 20]]

\* update: enemies after the movement and the edge handling
advanced_enemies(dt) ==
    IF at_edge(moved_enemies(dt)) THEN dropped(moved_enemies(dt)) ELSE moved_enemies(dt)

\* Mutant of moved_bullets: the bullets are not moved.
moved_bullets_still(dt) == bullets

\* update: `bullet.y -= BULLET_SPEED * dt`
moved_bullets(dt) ==
    [k \in 1..Len(bullets) |-> [bullets[k] EXCEPT !.y = @ - mul_dt(BULLET_SPEED, dt)]]

\* update: `self.bullets.retain(|b| b.y > 0.0)`
on_screen(b) == b.y > 0

retained_bullets(dt) == SelectSeq(moved_bullets(dt), on_screen)

\* update: the closure of `self.bullets.iter().any(..)`: distance < 20.0
bullet_hits(b, e) ==
    f32_lt(sqrt((e.x - b.x) * (e.x - b.x) + (e.y - b.y) * (e.y - b.y)), 20)

\* update: `self.enemies.retain(..)`: the enemies no bullet is in range of
retained_enemies(es, bs) ==
    LET unhit(e) == ~ \E j \in 1..Len(bs) : bullet_hits(bs[j], e)
    IN SelectSeq(es, unhit)

\* update: `hit_detected` at the end of the frame, true when the retain
\* removed an enemy (the hit sound is played then).
hit_detected == Len(enemies') < Len(enemies)

\* Mutant of update: the hits are decided before the bullets move, on the
\* bullet positions of the previous frame.
update_hits_before_bullets_move(dt, left, right) ==
    /\ IF game_over
       THEN UNCHANGED <<player_x, enemies, enemy_direction, bullets>>
       ELSE /\ player_x' = moved_player(dt, left, right)
            /\ enemy_direction' =
                  IF at_edge(moved_enemies(dt)) THEN enemy_direction * (-1)
                                                ELSE enemy_direction
            /\ bullets' = retained_bullets(dt)
            /\ enemies' = retained_enemies(advanced_enemies(dt), bullets)
    /\ UNCHANGED <<enemy_speed, wave, state>>

\* EventHandler::update with the frame's dt and the state of the Left and
\* Right keys.  Nothing in it assigns wave, enemy_speed or state.
update(dt, left, right) ==
    /\ IF game_over
       THEN UNCHANGED <<player_x, enemies, enemy_direction, bullets>>
       ELSE /\ player_x' = moved_player(dt, left, right)
            /\ enemy_direction' =
                  IF at_edge(moved_enemies(dt)) THEN enemy_direction * (-1)
                                                ELSE enemy_direction
            /\ bullets' = retained_bullets(dt)
            /\ enemies' = retained_enemies(advanced_enemies(dt), bullets')
    /\ UNCHANGED <<enemy_speed, wave, state>>

\* Mutant of shoot: the state is not looked at.
shoot_any_state ==
    /\ bullets' = Append(bullets, [x |-> player_x, y |-> SCREEN_HEIGHT - 50])
    /\ UNCHANGED <<player_x, enemies, enemy_direction, enemy_speed, wave, state>>

\* MainState::shoot
shoot ==
    /\ IF state = "Playing"
       THEN bullets' = Append(bullets, [x |-> player_x, y |-> SCREEN_HEIGHT - 50])
       ELSE UNCHANGED bullets
    /\ UNCHANGED <<player_x, enemies, enemy_direction, enemy_speed, wave, state>>

\* MainState::reset
reset ==
    /\ player_x' = SCREEN_WIDTH \div 2
    /\ bullets' = <<>>
    /\ enemies' = generate_enemies(1)
    /\ enemy_direction' = 1
    /\ enemy_speed' = INITIAL_ENEMY_SPEED
    /\ wave' = 1
    /\ state' = "Playing"

\* Mutant of next_wave: the speed is left as it is.
next_wave_keeps_speed ==
    /\ wave' = wave + 1
    /\ enemies' = generate_enemies(wave + 1)
    /\ enemy_speed' = enemy_speed
    /\ UNCHANGED <<player_x, bullets, enemy_direction, state>>

\* MainState::next_wave.  No function of main.rs calls it.
next_wave ==
    /\ wave' = wave + 1
    /\ enemies' = generate_enemies(wave + 1)
    /\ enemy_speed' = enemy_speed + 20
    /\ UNCHANGED <<player_x, bullets, enemy_direction, state>>

(***************************************************************************)
(* Call harness for the library functions: the vectors are built the way   *)
(* the unit tests of collision.rs and enemy.rs build them (Enemy::new,     *)
(* Bullet::new, Vec::push) and the functions are then called on them.      *)
(***************************************************************************)
\* Enemy positions and bullet positions of the harness.  (115,200) is within
\* the radius of both enemy positions, (95,195) only of (100,200), (135,205)
\* only of (130,200), and (112,216) is at distance exactly 20 from (100,200)
\* and in range of neither.
EnemyPoints == {<<100, 200>>, <<130, 200>>}
BulletPoints == {<<115, 200>>, <<95, 195>>, <<135, 205>>, <<112, 216>>}

FreshEnemies ==
    {Enemy_new(100, 200, 1, t) : t \in {"Standard", "Fast", "Tank"}}
        \cup {Enemy_new(130, 200, 1, t) : t \in {"Tank", "Swooper"}}
FreshBullets == {Bullet_new(p[1], p[2]) : p \in BulletPoints}

\* Values of the variables a specification does not use.
NoFrame == [dt |-> 0, left |-> FALSE, right |-> FALSE, hit |-> FALSE]
IdleCall ==
    /\ destroyed_info = <<>>
    /\ enemies_in = <<>>
    /\ bullets_in = <<>>
    /\ bullets_to_remove = <<>>
    /\ collided = FALSE
    /\ handed = FALSE
IdleDamage == enemy = Enemy_new(100, 200, 1, "Standard") /\ destroyed = FALSE /\ calls = 0
IdleMain ==
    /\ player_x = 0
    /\ enemy_direction = 1
    /\ enemy_speed = 0
    /\ wave = 0
    /\ state = "Playing"
    /\ state_before = "Playing"
    /\ ticks = 0
    /\ shots = 0
    /\ frame = NoFrame

InitCollision ==
    /\ enemies \in SeqsUpTo(FreshEnemies, MaxEnemies)
    /\ bullets \in SeqsUpTo(FreshBullets, MaxBullets)
    /\ IdleCall
    /\ IdleDamage
    /\ IdleMain
    /\ op = "new"

\* let destroyed_info = process_collisions(&mut enemies, &mut bullets);
ProcessCollisions ==
    \E r \in {process_collisions(enemies, bullets)} :
       /\ enemies' = r.enemies
       /\ bullets' = r.bullets
       /\ destroyed_info' = r.destroyed_info
       /\ enemies_in' = enemies
       /\ bullets_in' = bullets
       /\ bullets_to_remove' = r.bullets_to_remove
       /\ handed' = TRUE
       /\ op' = "process_collisions"
       /\ UNCHANGED <<collided, damageVars, mainVars>>

\* bullets.push(Bullet::new(x, y));
\* (The harness builds the vectors before it moves them: no push after an
\* update call.)
PushBullet(p) ==
    /\ Len(bullets) < MaxBullets
    /\ ticks = 0
    /\ bullets' = Append(bullets, Bullet_new(p[1], p[2]))
    /\ op' = "push"
    /\ UNCHANGED <<enemies, callVars, damageVars, mainVars>>

\* let destroyed = enemy.take_damage();
TakeDamage ==
    /\ calls < MaxCalls
    /\ LET r == take_damage(enemy)
       IN /\ enemy' = r.self
          /\ destroyed' = r.ret
    /\ calls' = calls + 1
    /\ op' = "take_damage"
    /\ UNCHANGED <<enemies, bullets, callVars, mainVars>>

\* The vectors as built have not been handed to process_collisions yet.
AsBuilt == ~ handed

\* for bullet in &mut bullets { bullet.update(dt); }
\* The bullets rise by 250 px per half second.  The harness moves the vectors
\* as built, and the bullets while none ends more than MaxBulletRise above the
\* top of the screen; ticks counts the update calls.
UpdateBullets(dt) ==
    /\ AsBuilt
    /\ bullets # <<>>
    /\ \A j \in 1..Len(bullets) : Bullet_update(bullets[j], dt).y >= 0 - MaxBulletRise
    /\ bullets' = [j \in 1..Len(bullets) |-> Bullet_update(bullets[j], dt)]
    /\ ticks' = ticks + 1
    /\ op' = "bullet_update"
    /\ UNCHANGED <<enemies, callVars, damageVars, player_x, enemy_direction,
                   enemy_speed, wave, state, state_before, shots, frame>>

\* for enemy in &mut enemies { enemy.update(base_speed, dt); }
\* The harness moves the enemies by whole pixels and while none ends beyond
\* MaxEnemyX.
UpdateEnemies(base_speed, dt) ==
    /\ AsBuilt
    /\ enemies # <<>>
    /\ \A k \in 1..Len(enemies) :
          /\ whole_step(enemies[k], base_speed, dt)
          /\ Enemy_update(enemies[k], base_speed, dt).x <= MaxEnemyX
    /\ enemies' = [k \in 1..Len(enemies) |-> Enemy_update(enemies[k], base_speed, dt)]
    /\ ticks' = ticks + 1
    /\ op' = "enemy_update"
    /\ UNCHANGED <<bullets, callVars, damageVars, player_x, enemy_direction,
                   enemy_speed, wave, state, state_before, shots, frame>>

\* enemy.update(base_speed, dt);
UpdateEnemy(base_speed, dt) ==
    /\ whole_step(enemy, base_speed, dt)
    /\ Enemy_update(enemy, base_speed, dt).x <= MaxEnemyX
    /\ enemy' = Enemy_update(enemy, base_speed, dt)
    /\ ticks' = ticks + 1
    /\ op' = "enemy_update"
    /\ UNCHANGED <<enemies, bullets, destroyed, calls, callVars, player_x,
                   enemy_direction, enemy_speed, wave, state, state_before,
                   shots, frame>>

\* dt and base speed of the update calls: 0.5 s for the bullets, 0.5 s and 1 s
\* at the initial enemy speed of 50 px/s for the enemies.
BulletDts == {1}
EnemyDts == {1, 2}
EnemySpeeds == {50}

NextCollision ==
    \/ ProcessCollisions
    \/ \E p \in BulletPoints : PushBullet(p)
    \/ \E dt \in BulletDts : UpdateBullets(dt)
    \/ \E base_speed \in EnemySpeeds, dt \in EnemyDts : UpdateEnemies(base_speed, dt)

SpecCollision == InitCollision /\ [][NextCollision]_vars

\* One enemy of each type, once standalone (take_damage is called on it
\* directly) and once in the vector handed to process_collisions.
InitDamage ==
    /\ \E t \in EnemyType, p \in EnemyPoints :
          /\ enemy = Enemy_new(p[1], p[2], 1, t)
          /\ enemies = <<Enemy_new(p[1], p[2], 1, t)>>
    /\ bullets = <<>>
    /\ destroyed = FALSE
    /\ calls = 0
    /\ IdleCall
    /\ IdleMain
    /\ op = "new"

NextDamage ==
    \/ TakeDamage
    \/ NextCollision
    \/ \E base_speed \in EnemySpeeds, dt \in EnemyDts : UpdateEnemy(base_speed, dt)

SpecDamage == InitDamage /\ [][NextDamage]_vars

\* check_collision on one bullet and one enemy, as in
\* test_bullet_collision_detection: the enemy is at (100,200), of any type,
\* fresh or (a Tank) already hit once or twice; the bullet is offset from it
\* by up to 21 px each way, which puts it inside the radius (5,5), (14,14),
\* (19,6), exactly on it (20,0), (12,16), (16,12), or outside (15,14),
\* (19,7), (21,0).
CheckOffsets == {-20, -16, -12, 0, 5, 6, 7, 12, 14, 15, 16, 19, 20, 21}

CheckEnemies ==
    LET tank == Enemy_new(100, 200, 1, "Tank")
    IN {Enemy_new(100, 200, 1, t) : t \in EnemyType}
           \cup {take_damage(tank).self, take_damage(take_damage(tank).self).self}

InitCheck ==
    /\ enemies \in {<<e>> : e \in CheckEnemies}
    /\ bullets \in {<<Bullet_new(100 + dx, 200 + dy)>> : dx \in CheckOffsets, dy \in CheckOffsets}
    /\ IdleCall
    /\ IdleDamage
    /\ IdleMain
    /\ op = "new"

\* let hit = check_collision(&bullet, &enemy);
CheckCollision ==
    /\ collided' = check_collision(bullets[1], enemies[1])
    /\ op' = "check_collision"
    /\ UNCHANGED <<enemies, bullets, destroyed_info, enemies_in, bullets_in,
                   bullets_to_remove, handed, damageVars, mainVars>>

NextCheck == CheckCollision

SpecCheck == InitCheck /\ [][NextCheck]_vars

(***************************************************************************)
(* Vocabulary of the claims about process_collisions.  All of it is stated  *)
(* on the arguments of the last call (enemies_in, bullets_in) and on what   *)
(* the call left behind (enemies, bullets, destroyed_info).                 *)
(***************************************************************************)
AfterCall == op = "process_collisions"

\* Indices (1-based) of the bullets of bs within the collision radius of e.
InRangeIdx(bs, e) == {j \in 1..Len(bs) : check_collision(bs[j], e)}

\* Smallest index of a bullet of bs in range of e, 0 when there is none.
FirstInRange(bs, e) ==
    IF InRangeIdx(bs, e) = {} THEN 0
    ELSE CHOOSE j \in InRangeIdx(bs, e) : \A j2 \in InRangeIdx(bs, e) : j <= j2

\* Input enemies that had a bullet in range.
HitEnemies == {k \in 1..Len(enemies_in) : InRangeIdx(bullets_in, enemies_in[k]) # {}}

\* Indices of the input bullets that are the first in-range bullet of some enemy.
SpentIdx == {FirstInRange(bullets_in, enemies_in[k]) : k \in HitEnemies}

HealthLost == SumHealth(enemies_in) - SumHealth(enemies)
BulletsConsumed == Len(bullets_in) - Len(bullets)

\* Order-preserving ways of reading `enemies` as what is left of `enemies_in`:
\* f[m] is the input index of the m-th remaining enemy.
Alignments ==
    {f \in [1..Len(enemies) -> 1..Len(enemies_in)] :
        /\ \A a, b \in 1..Len(enemies) : a < b => f[a] < f[b]
        /\ \A m \in 1..Len(enemies) :
              [enemies[m] EXCEPT !.health = 0] = [enemies_in[f[m]] EXCEPT !.health = 0]}

Image(f) == {f[m] : m \in DOMAIN f}

(***************************************************************************)
(* C1: in one process_collisions call a bullet damages at most one enemy:  *)
(* every health point lost in the call is paid for by a bullet of its own, *)
(* so the health lost is at most the number of bullets consumed.           *)
(***************************************************************************)
C1_BulletDamagesAtMostOneEnemy ==
    AfterCall => HealthLost <= BulletsConsumed

(***************************************************************************)
(* C2: in one call every enemy loses at most 1 health point, at most one   *)
(* bullet is consumed per enemy that had a bullet in range, and when two   *)
(* or more bullets are in range of one enemy and of no other enemy, all of *)
(* them but one remain.                                                    *)
(***************************************************************************)
C2_OneHitPerEnemy ==
    AfterCall =>
        /\ \E f \in Alignments :
              /\ \A m \in 1..Len(enemies) :
                    enemies_in[f[m]].health - enemies[m].health \in {0, 1}
              /\ \A k \in (1..Len(enemies_in)) \ Image(f) : enemies_in[k].health = 1
        /\ BulletsConsumed <= Cardinality(HitEnemies)
        /\ \A k \in 1..Len(enemies_in) :
              LET J == InRangeIdx(bullets_in, enemies_in[k])
              IN (/\ Cardinality(J) >= 2
                  /\ \A k2 \in (1..Len(enemies_in)) \ {k} :
                        InRangeIdx(bullets_in, enemies_in[k2]) \cap J = {})
                 => Cardinality(InRangeIdx(bullets, enemies_in[k])) = Cardinality(J) - 1

\* Two bullets were in range of one enemy and of no other, and one is left.
C2_Witness ==
    /\ AfterCall
    /\ Len(bullets_in) = 2
    /\ Len(bullets) = 1
    /\ \E k \in 1..Len(enemies_in) :
          /\ InRangeIdx(bullets_in, enemies_in[k]) = {1, 2}
          /\ \A k2 \in (1..Len(enemies_in)) \ {k} :
                InRangeIdx(bullets_in, enemies_in[k2]) = {}
          /\ Len(enemies_in) = 2

(***************************************************************************)
(* C3: the bullet that hits an enemy is the in-range bullet of smallest    *)
(* index; the bullets removed are exactly the first in-range bullets of    *)
(* the enemies, and every other bullet stays, in order.                    *)
(***************************************************************************)
C3_FirstBulletInRangeHits ==
    AfterCall => bullets = Omit(bullets_in, SpentIdx)

\* An enemy had two bullets in range; the first went, the later one stayed.
C3_Witness ==
    /\ AfterCall
    /\ \E k \in 1..Len(enemies_in) :
          /\ InRangeIdx(bullets_in, enemies_in[k]) = {1, 2}
          /\ bullets_in[1] # bullets_in[2]
          /\ bullets = <<bullets_in[2]>>

(***************************************************************************)
(* C4: one destruction event per removed enemy and one removed enemy per   *)
(* event: the enemy count drops by the number of events, and the events    *)
(* are, in collection order, (x, y, points(enemy_type)) of the removed     *)
(* enemies.                                                                *)
(***************************************************************************)
C4_EventsMatchRemovedEnemies ==
    AfterCall =>
        /\ Len(enemies) = Len(enemies_in) - Len(destroyed_info)
        /\ \E f \in Alignments :
              LET gone == Omit(enemies_in, Image(f))
              IN /\ Len(destroyed_info) = Len(gone)
                 /\ \A n \in 1..Len(gone) :
                       destroyed_info[n] =
                           <<gone[n].x, gone[n].y, points(gone[n].enemy_type)>>

\* A call that destroyed one enemy of two and left the other.
C4_Witness ==
    /\ AfterCall
    /\ Len(enemies_in) = 2
    /\ Len(enemies) = 1
    /\ Len(destroyed_info) = 1

(***************************************************************************)
(* C5: an enemy of max health h answers take_damage with false on calls    *)
(* 1..h-1 and true on call h, losing 1 health per call; later calls change *)
(* nothing and answer true, health staying 0.  Through process_collisions  *)
(* a hit on an enemy with more than 1 health left consumes the bullet and  *)
(* leaves the enemy with 1 health less, a hit on its last health point     *)
(* (its h-th hit) removes it, and no enemy stays with health 0.            *)
(***************************************************************************)
C5_DamageSequence ==
    LET h == max_health(enemy.enemy_type)
    IN /\ enemy.health = IF calls < h THEN h - calls ELSE 0
       /\ calls >= 1 => (destroyed <=> calls >= h)
       /\ \A k \in 1..Len(enemies) :
             enemies[k].health \in 1..max_health(enemies[k].enemy_type)
       /\ (AfterCall /\ Len(enemies_in) = 1) =>
             LET e == enemies_in[1]
             IN IF InRangeIdx(bullets_in, e) = {}
                THEN enemies = enemies_in /\ bullets = bullets_in /\ destroyed_info = <<>>
                ELSE /\ Len(bullets) = Len(bullets_in) - 1
                     /\ IF e.health = 1
                        THEN enemies = <<>> /\ Len(destroyed_info) = 1
                        ELSE /\ enemies = <<[e EXCEPT !.health = e.health - 1]>>
                             /\ destroyed_info = <<>>

\* A Tank has been called 4 times directly (the 4th call changed nothing and
\* answered true) and the Tank in the vector has just been removed by the
\* hit that took its last health point.
C5_Witness ==
    /\ enemy.enemy_type = "Tank"
    /\ calls = 4
    /\ destroyed
    /\ enemy.health = 0
    /\ AfterCall
    /\ Len(enemies_in) = 1
    /\ enemies_in[1].health = 1
    /\ enemies_in[1].enemy_type = "Tank"
    /\ enemies = <<>>

(***************************************************************************)
(* C6 as stated: take_damage returns true exactly when the health was 1    *)
(* before the call.                                                        *)
(***************************************************************************)
C6_TrueOnlyOnLastPoint ==
    [][calls' = calls + 1 => (destroyed' <=> enemy.health = 1)]_vars

(***************************************************************************)
(* C6 as amended: take_damage returns true exactly when the health is 0    *)
(* after the call, that is when it was 1 or already 0 before the call; a   *)
(* call on an enemy whose health is already 0 changes nothing and returns  *)
(* true.                                                                   *)
(***************************************************************************)
C6_TrueWhenHealthIsZero ==
    [][calls' = calls + 1 =>
          /\ destroyed' <=> enemy'.health = 0
          /\ destroyed' <=> enemy.health <= 1
          /\ enemy.health >= 1 => enemy'.health = enemy.health - 1
          /\ enemy.health = 0 => enemy' = enemy]_vars

\* take_damage has been called on an enemy that already had health 0.
C6_Witness ==
    /\ op = "take_damage"
    /\ calls > max_health(enemy.enemy_type)
    /\ destroyed
    /\ enemy.health = 0

(***************************************************************************)
(* systems/wave.rs: the harness picks a wave number and calls generate_wave.*)
(***************************************************************************)
InitWave ==
    /\ wave \in 1..MaxWave
    /\ enemies = <<>>
    /\ bullets = <<>>
    /\ player_x = 0
    /\ enemy_direction = 1
    /\ enemy_speed = 0
    /\ state = "Playing"
    /\ state_before = "Playing"
    /\ ticks = 0
    /\ shots = 0
    /\ frame = NoFrame
    /\ IdleCall
    /\ IdleDamage
    /\ op = "new"

\* let enemies = generate_wave(wave);
GenerateWave ==
    /\ enemies' = generate_wave(wave)
    /\ op' = "generate_wave"
    /\ UNCHANGED <<bullets, callVars, damageVars, mainVars>>

NextWave == GenerateWave

SpecWave == InitWave /\ [][NextWave]_vars

(***************************************************************************)
(* main.rs: the running game.  The host calls update once per frame with   *)
(* the frame's dt and the keys held, and key_down_event on Space (shoot)   *)
(* and R (reset).                                                          *)
(***************************************************************************)
\* Frame times, in half seconds: 0 s and 2 s for the game from its start,
\* 0 s, 0.5 s and 2 s for single frames.
GameDts == {0, 4}
FrameDts == {0, 1, 4}

\* MainState::new
InitMain ==
    /\ player_x = SCREEN_WIDTH \div 2
    /\ bullets = <<>>
    /\ enemies = generate_enemies(1)
    /\ enemy_direction = 1
    /\ enemy_speed = INITIAL_ENEMY_SPEED
    /\ wave = 1
    /\ state = "Playing"
    /\ state_before = "Playing"
    /\ ticks = 0
    /\ shots = 0
    /\ frame = NoFrame
    /\ IdleCall
    /\ IdleDamage
    /\ op = "new"

\* One frame of the game.  The formation has no lower limit in main.rs; the
\* model stops advancing it once an enemy is below MaxEnemyY.
Update(dt, left, right) ==
    /\ \A k \in 1..Len(enemies) : enemies[k].y <= MaxEnemyY
    /\ update(dt, left, right)
    /\ frame' = [dt |-> dt, left |-> left, right |-> right,
                 hit |-> ~ game_over /\ hit_detected]
    /\ state_before' = state
    /\ op' = "update"
    /\ UNCHANGED <<ticks, shots, callVars, damageVars>>

\* key_down_event, KeyCode::Space
Shoot ==
    /\ Len(bullets) < MaxBullets
    /\ shoot
    /\ state_before' = state
    /\ op' = "shoot"
    /\ UNCHANGED <<ticks, shots, frame, callVars, damageVars>>

\* key_down_event, KeyCode::R
Reset ==
    /\ reset
    /\ state_before' = state
    /\ op' = "reset"
    /\ UNCHANGED <<ticks, shots, frame, callVars, damageVars>>

NextMain ==
    \/ \E dt \in GameDts, left \in BOOLEAN, right \in BOOLEAN : Update(dt, left, right)
    \/ Shoot
    \/ Reset

Spec == InitMain /\ [][NextMain]_vars

(***************************************************************************)
(* main.rs: the handlers applied to MainState values (both state tags, a   *)
(* few enemies left of the formation, bullets in flight), at most MaxTicks *)
(* frames each.                                                            *)
(***************************************************************************)
\* The formation after it has moved ox pixels sideways and dropped `drops`
\* times, with only the enemies of the grid cells <<column, row>> in `cells`
\* left, in vector order.
formation(ox, drops, cells) ==
    LET grid == generate_enemies(1)
        moved == [k \in 1..Len(grid) |->
                     [x |-> grid[k].x + ox, y |-> grid[k].y + 20 * drops]]
    IN Omit(moved, {k \in 1..Len(grid) : <<(k - 1) \div 3, (k - 1) % 3>> \notin cells})

\* States late in a wave.  The direction is +1 after an even number of drops
\* and -1 after an odd number (update flips it with every drop).
\*  - 2 drops, moved 25 px: the enemy of cell <<5,0>> is at (375,90); after a
\*    0.5 s frame it is at (400,90), where the bullet (400,340) arrives too.
\*  - 2 drops, moved 160 px: the enemy of cell <<9,0>> is at (750,90) and
\*    reaches the right margin in a 0.5 s frame.
\*  - the bullet (400,250) was fired from the centre and has flown 300 px; a
\*    0.5 s frame takes it to y = 0, the top line of the screen.
\*  - the bullet (775,360) was fired from the right limit; a 0.5 s frame takes
\*    it to (775,110), where the enemy of cell <<9,0>> arrives by its move
\*    and drop; without the drop that enemy would be at (775,90), exactly
\*    20 px from the bullet.
\*  - 17 drops, moved -540 px, only column 9 left: the enemy of cell <<9,2>> is
\*    at (50,490); a 0.5 s frame takes it to the left margin and the drop
\*    takes it over the defender line.
LateFormations ==
    {[ox |-> 25, drops |-> 2, cells |-> c] : c \in SUBSET {<<5, 0>>, <<9, 0>>}}
        \cup {[ox |-> 160, drops |-> 2, cells |-> c] : c \in SUBSET {<<5, 0>>, <<9, 0>>}}
        \cup {[ox |-> -540, drops |-> 17, cells |-> c] : c \in SUBSET {<<9, 0>>, <<9, 2>>}}

InitUpdate ==
    /\ player_x \in {250, SCREEN_WIDTH \div 2}
    /\ bullets \in {<<>>, <<[x |-> 400, y |-> 340]>>, <<[x |-> 400, y |-> 90]>>,
                    <<[x |-> 400, y |-> 250]>>, <<[x |-> 775, y |-> 360]>>,
                    <<[x |-> player_x, y |-> SCREEN_HEIGHT - 50]>>}
    /\ \E f \in LateFormations :
          /\ enemies = formation(f.ox, f.drops, f.cells)
          /\ enemy_direction = IF f.drops % 2 = 0 THEN 1 ELSE -1
    /\ enemy_speed = INITIAL_ENEMY_SPEED
    /\ wave = 1
    /\ state \in {"Playing", "GameOver"}
    /\ state_before = state
    /\ ticks = 0
    /\ shots = 0
    /\ frame = NoFrame
    /\ IdleCall
    /\ IdleDamage
    /\ op = "new"

\* One frame, counted.
Frame(dt, left, right) ==
    /\ ticks < MaxTicks
    /\ update(dt, left, right)
    /\ frame' = [dt |-> dt, left |-> left, right |-> right,
                 hit |-> ~ game_over /\ hit_detected]
    /\ state_before' = state
    /\ ticks' = ticks + 1
    /\ op' = "update"
    /\ UNCHANGED <<shots, callVars, damageVars>>

NextUpdate ==
    \/ \E dt \in FrameDts, left \in BOOLEAN, right \in BOOLEAN : Frame(dt, left, right)
    \/ Shoot
    \/ Reset

SpecUpdate == InitUpdate /\ [][NextUpdate]_vars

(***************************************************************************)
(* C7: for every wave number n >= 1 the grid generated for wave n has      *)
(* exactly (2+n)*10 enemies, the enemy of column i and row j stands at     *)
(* (50 + 60*i, 100 + 50*j) and is element i*(2+n)+j of the vector (column  *)
(* by column), no position is repeated, and elements 0, 1 and 2+n are at   *)
(* (50,100), (50,150) and (110,100).                                       *)
(***************************************************************************)
C7_WaveGrid ==
    op = "generate_wave" =>
        /\ Len(enemies) = (2 + wave) * 10
        /\ \A i \in 0..9, j \in 0..(2 + wave - 1) :
              /\ enemies[i * (2 + wave) + j + 1].x = 50 + 60 * i
              /\ enemies[i * (2 + wave) + j + 1].y = 100 + 50 * j
        /\ \A a, b \in 1..Len(enemies) : a # b => enemies[a] # enemies[b]
        /\ <<enemies[1].x, enemies[1].y>> = <<50, 100>>
        /\ <<enemies[2].x, enemies[2].y>> = <<50, 150>>
        /\ <<enemies[2 + wave + 1].x, enemies[2 + wave + 1].y>> = <<110, 100>>

\* generate_wave(2) has been called and returned 40 enemies.
C7_Witness ==
    /\ op = "generate_wave"
    /\ wave = 2
    /\ Len(enemies) = 40

(***************************************************************************)
(* C8: whenever the enemy collection becomes empty during a frame in the   *)
(* Playing state, that frame increments the wave number by 1, replaces the *)
(* collection by the grid of the new wave and adds the fixed increment to  *)
(* the base enemy speed.                                                   *)
(***************************************************************************)
C8_WaveTransitionOnClear ==
    [][(/\ op' = "update"
        /\ state = "Playing"
        /\ enemies # <<>>
        /\ retained_enemies(advanced_enemies(frame'.dt), retained_bullets(frame'.dt)) = <<>>)
       => (/\ wave' = wave + 1
           /\ enemies' = generate_enemies(wave + 1)
           /\ enemy_speed' = enemy_speed + 20)]_vars

(***************************************************************************)
(* C9: a frame after whose movement some enemy is below the defender line  *)
(* (y > SCREEN_HEIGHT - DEFENDER_LINE) ends in GameOver, so no state seen  *)
(* between frames is Playing with an enemy that has breached the line.     *)
(***************************************************************************)
C9_NoBreachWhilePlaying ==
    state = "Playing" =>
        \A k \in 1..Len(enemies) : ~ has_breached_defender_line(enemies[k])

(***************************************************************************)
(* C10: while the state is GameOver a frame changes neither the player     *)
(* position, the enemies, the bullets, the shared direction, the base      *)
(* speed, the wave number nor the state tag, whatever the input and dt,    *)
(* and neither does a fire action: only reset leaves GameOver.             *)
(***************************************************************************)
C10_GameOverIsFrozen ==
    [][state = "GameOver" =>
          \/ op' = "reset"
          \/ UNCHANGED <<player_x, enemies, bullets, enemy_direction,
                         enemy_speed, wave, state>>]_vars

\* A frame with dt > 0 and a key held has run in GameOver, with enemies and
\* a bullet in the collections.
C10_Witness ==
    /\ state = "GameOver"
    /\ op = "update"
    /\ frame.dt > 0
    /\ frame.left
    /\ enemies # <<>>
    /\ bullets # <<>>

(***************************************************************************)
(* C11: a fire action in GameOver leaves the bullets and the rest of the   *)
(* simulation state as they are; a fire action in Playing appends exactly  *)
(* one bullet at the end of the bullet collection, at x equal to the       *)
(* current player x, and changes nothing else.                             *)
(***************************************************************************)
C11_FireOnlyWhilePlaying ==
    [][op' = "shoot" =>
          /\ UNCHANGED <<player_x, enemies, enemy_direction, enemy_speed, wave, state>>
          /\ state = "GameOver" => bullets' = bullets
          /\ state = "Playing" =>
                /\ Len(bullets') = Len(bullets) + 1
                /\ SubSeq(bullets', 1, Len(bullets)) = bullets
                /\ bullets'[Len(bullets')].x = player_x]_vars

\* Space has been pressed in GameOver, with a bullet in flight and enemies
\* on the screen.
C11_Witness ==
    /\ op = "shoot"
    /\ state_before = "GameOver"
    /\ state = "GameOver"
    /\ bullets # <<>>
    /\ enemies # <<>>

PlayingFrame == op' = "update" /\ state = "Playing"

\* Bullet b and enemy e are closer than the hit range of update.
Near(b, e) == (e.x - b.x) * (e.x - b.x) + (e.y - b.y) * (e.y - b.y) < 400

Elems(s) == {s[k] : k \in 1..Len(s)}

(***************************************************************************)
(* C13: a frame with dt = 0 in the Playing state changes no position       *)
(* (player x, every enemy's x and y, every bullet's x and y), does not     *)
(* flip the shared direction, removes no enemy that was not already in     *)
(* range of a bullet, and leaves the state tag alone.                      *)
(***************************************************************************)
C13_ZeroDtFrameChangesNothing ==
    [][(PlayingFrame /\ frame'.dt = 0) =>
          /\ player_x' = player_x
          /\ enemy_direction' = enemy_direction
          /\ state' = state
          /\ bullets' = bullets
          /\ Elems(enemies') \subseteq Elems(enemies)
          /\ \A k \in 1..Len(enemies) :
                (\A j \in 1..Len(bullets) : ~ Near(bullets[j], enemies[k]))
                    => enemies[k] \in Elems(enemies')]_vars

\* Sideways step of the formation in the frame the step is: direction times
\* base speed times dt (dt in half seconds).
StepX == enemy_direction * ((enemy_speed * frame'.dt) \div 2)

\* What the frame did to the formation: every enemy left after the frame is
\* an enemy of before, moved by StepX and lowered by dy.
MovedAndLowered(dy) ==
    \A m \in 1..Len(enemies') : \E k \in 1..Len(enemies) :
        enemies'[m] = [x |-> enemies[k].x + StepX, y |-> enemies[k].y + dy]

\* Some enemy is, after its move, strictly outside / on or outside the
\* margins 25 and 775.
OutsideMargins == \E k \in 1..Len(enemies) :
    enemies[k].x + StepX < 25 \/ enemies[k].x + StepX > 775
OnOrOutsideMargins == \E k \in 1..Len(enemies) :
    enemies[k].x + StepX <= 25 \/ enemies[k].x + StepX >= 775

(***************************************************************************)
(* C14 as stated: in a frame, if after the move some enemy's x is outside  *)
(* the margins [25, 775], the shared direction is negated once and every   *)
(* enemy's y grows by 20; otherwise the direction and every y stay.        *)
(***************************************************************************)
C14_FlipAndDropOutsideMargins ==
    [][PlayingFrame =>
          IF OutsideMargins
          THEN enemy_direction' = - enemy_direction /\ MovedAndLowered(20)
          ELSE enemy_direction' = enemy_direction /\ MovedAndLowered(0)]_vars

(***************************************************************************)
(* C14 as amended: in a frame, if after the move some enemy's x is on or   *)
(* outside a margin (x <= 25 or x >= 775), the shared direction is negated *)
(* once and every enemy's y grows by 20; otherwise the direction and every *)
(* y stay.  The direction flips in a frame iff the formation drops in it.  *)
(***************************************************************************)
C14_FlipAndDropAtMargins ==
    [][PlayingFrame =>
          IF OnOrOutsideMargins
          THEN enemy_direction' = - enemy_direction /\ MovedAndLowered(20)
          ELSE enemy_direction' = enemy_direction /\ MovedAndLowered(0)]_vars

\* A 0.5 s frame has taken an enemy from (750,90) to exactly the right
\* margin: it is at (775,110) and the formation now heads left.
C14_Witness ==
    /\ op = "update"
    /\ state = "Playing"
    /\ ticks = 1
    /\ frame.dt = 1
    /\ enemy_direction = -1
    /\ \E k \in 1..Len(enemies) : enemies[k] = [x |-> 775, y |-> 110]

\* Lowering of the formation in the frame the step is.
DropY == IF OnOrOutsideMargins THEN 20 ELSE 0

\* Positions of the enemies after their move and drop in the frame.
PostEnemies ==
    {[x |-> enemies[k].x + StepX, y |-> enemies[k].y + DropY] : k \in 1..Len(enemies)}

\* Bullet j after its move in the frame: 500 px/s upwards.
PostBullet(j) ==
    [x |-> bullets[j].x, y |-> bullets[j].y - (500 * frame'.dt) \div 2]

(***************************************************************************)
(* C15: in a frame a bullet leaves the collection only if its y is below 0 *)
(* after its move or if it hit an enemy: a bullet whose y is 0 or more     *)
(* after the move and that is in range of no enemy is still there at the   *)
(* end of the frame, and no bullet left at the end of the frame has y < 0. *)
(***************************************************************************)
C15_BulletLeavesOnlyAboveTopOrOnHit ==
    [][PlayingFrame =>
          /\ \A j \in 1..Len(bullets) :
                (/\ PostBullet(j).y >= 0
                 /\ \A e \in PostEnemies : ~ Near(PostBullet(j), e))
                    => PostBullet(j) \in Elems(bullets')
          /\ \A j \in 1..Len(bullets') : bullets'[j].y >= 0]_vars

(***************************************************************************)
(* C16: in every reachable state the player's x lies in [25, 775], for     *)
(* every sequence of frames, whatever keys are held and however large dt.  *)
(***************************************************************************)
C16_PlayerStaysOnScreen ==
    player_x >= 25 /\ player_x <= 775

\* A 2 s frame with Left held (600 px to the left) has ended with the
\* player on the left limit.
C16_Witness ==
    /\ op = "update"
    /\ state = "Playing"
    /\ frame.dt = 4
    /\ frame.left
    /\ ~ frame.right
    /\ player_x = 25

(***************************************************************************)
(* C17: check_collision(bullet, enemy) is true iff the distance between    *)
(* the two centres is strictly less than 20, that is iff                   *)
(* dx*dx + dy*dy < 400, whatever the enemy's type and health; a pair at    *)
(* distance exactly 20 does not collide.                                   *)
(***************************************************************************)
C17_CollisionIffCloserThanRadius ==
    op = "check_collision" =>
        LET dx == enemies[1].x - bullets[1].x
            dy == enemies[1].y - bullets[1].y
        IN collided <=> dx * dx + dy * dy < 400

\* check_collision has answered false for a Tank with 2 health left and a
\* bullet 12 px beside and 16 px above it, at distance exactly 20.
C17_Witness ==
    /\ op = "check_collision"
    /\ enemies[1].enemy_type = "Tank"
    /\ enemies[1].health = 2
    /\ bullets[1] = [x |-> 88, y |-> 184]
    /\ ~ collided

(***************************************************************************)
(* C18: process_collisions deals with every input enemy exactly once and   *)
(* removes nothing else: the enemies left are the input enemies that were  *)
(* not destroyed (not hit, or hit with more than 1 health), in their       *)
(* original order and at their positions, each hit one with 1 health less; *)
(* the bullets left are the input bullets that hit no enemy, in their      *)
(* original order; nothing is skipped, duplicated or removed twice.        *)
(***************************************************************************)
C18_RemovalKeepsTheRest ==
    AfterCall =>
        LET gone == {k \in HitEnemies : enemies_in[k].health = 1}
            seen == [k \in 1..Len(enemies_in) |->
                        IF k \in HitEnemies
                        THEN [enemies_in[k] EXCEPT !.health = @ - 1]
                        ELSE enemies_in[k]]
        IN /\ enemies = Omit(seen, gone)
           /\ bullets = Omit(bullets_in, SpentIdx)
           /\ Len(enemies) = Len(enemies_in) - Cardinality(gone)
           /\ Len(bullets) = Len(bullets_in) - Cardinality(SpentIdx)

\* A call on two enemies and two bullets: the first enemy was destroyed by
\* one bullet, the Tank behind it lost a health point to the other, and no
\* bullet is left.
C18_Witness ==
    /\ AfterCall
    /\ Len(enemies_in) = 2
    /\ enemies_in[1].health = 1
    /\ enemies_in[2].health = 3
    /\ Len(bullets_in) = 2
    /\ bullets_in[1] # bullets_in[2]
    /\ bullets = <<>>
    /\ Len(enemies) = 1
    /\ enemies[1] = [enemies_in[2] EXCEPT !.health = 2]

\* Every enemy of the collection has between 1 and max_health health.
HealthInRange ==
    \A k \in 1..Len(enemies) :
        enemies[k].health >= 1 /\ enemies[k].health <= max_health(enemies[k].enemy_type)

\* Order-preserving ways of reading the enemies after the step as enemies of
\* before it, none of them with more health than it had; the enemies of
\* before that are left out were all on their last health point.
HealthAlignments ==
    {f \in [1..Len(enemies') -> 1..Len(enemies)] :
        /\ \A a, b \in 1..Len(enemies') : a < b => f[a] < f[b]
        /\ \A m \in 1..Len(enemies') :
              /\ [enemies'[m] EXCEPT !.health = 0] = [enemies[f[m]] EXCEPT !.health = 0]
              /\ enemies'[m].health <= enemies[f[m]].health
        /\ \A k \in 1..Len(enemies) : k \notin Image(f) => enemies[k].health = 1}

(***************************************************************************)
(* C19: between calls every enemy of the collection has health between 1   *)
(* and max_health of its type; a process_collisions call never raises an   *)
(* enemy's health, and an enemy whose health reaches 0 in a call is gone   *)
(* after that call, so that no enemy is ever present with health 0.        *)
(***************************************************************************)
C19_LiveEnemiesHaveHealth ==
    /\ []HealthInRange
    /\ [][op' = "process_collisions" => HealthAlignments # {}]_vars

\* After several calls a Tank is down to its last health point and still in
\* the collection, while the other enemy of the call, hit on its last point,
\* is gone.
C19_Witness ==
    /\ AfterCall
    /\ Len(enemies_in) = 2
    /\ Len(enemies) = 1
    /\ enemies[1].enemy_type = "Tank"
    /\ enemies[1].health = 1
    /\ \E k \in 1..2 : enemies_in[k].health = 1 /\ enemies_in[k].x # enemies[1].x

(***************************************************************************)
(* C20: within a frame the hits are decided last, on the positions the     *)
(* enemies have after their move and this frame's drop and the bullets     *)
(* have after their move: the bullets left are bullets at their post-move  *)
(* positions, and the enemies left are exactly the moved (and dropped)     *)
(* enemies in range of none of the bullets left; a bullet culled in the    *)
(* frame removes no enemy.                                                 *)
(***************************************************************************)
C20_HitsDecidedAfterAllMoves ==
    [][PlayingFrame =>
          /\ Elems(bullets') \subseteq {PostBullet(j) : j \in 1..Len(bullets)}
          /\ Elems(enemies') =
                {e \in PostEnemies : \A b \in Elems(bullets') : ~ Near(b, e)}
          /\ Len(enemies') = Cardinality(Elems(enemies'))]_vars

\* A 0.5 s frame has taken a bullet from (775,360) to (775,110) and the
\* formation to the right margin, where it turned and dropped; the enemy
\* that came to (775,110) was hit there.
C20_Witness ==
    /\ op = "update"
    /\ state = "Playing"
    /\ ticks = 1
    /\ frame.dt = 1
    /\ frame.hit
    /\ enemy_direction = -1
    /\ bullets = <<[x |-> 775, y |-> 110]>>

(***************************************************************************)
(* main.rs: the methods of MainState called in any order, next_wave        *)
(* included (update does not call it), from MainState::new, with at most   *)
(* MaxTicks frames and waves up to MaxSessionWave.                         *)
(***************************************************************************)
\* self.next_wave()
NextWaveCall ==
    /\ wave < MaxSessionWave
    /\ next_wave
    /\ state_before' = state
    /\ op' = "next_wave"
    /\ UNCHANGED <<ticks, shots, frame, callVars, damageVars>>

NextSession ==
    \/ \E dt \in GameDts, left \in BOOLEAN, right \in BOOLEAN : Frame(dt, left, right)
    \/ Shoot
    \/ Reset
    \/ NextWaveCall

SpecSession == InitMain /\ [][NextSession]_vars

(***************************************************************************)
(* C21: in every state the base enemy speed is 50 + 20 * (wave - 1); speed *)
(* and wave change only together, by +20 and +1, or through reset, so the  *)
(* speed never decreases except through reset; reset restores wave 1 and   *)
(* speed 50.                                                               *)
(***************************************************************************)
C21_SpeedFollowsWave ==
    /\ [](enemy_speed = 50 + 20 * (wave - 1))
    /\ [][(enemy_speed' # enemy_speed \/ wave' # wave) =>
              \/ wave' = wave + 1 /\ enemy_speed' = enemy_speed + 20
              \/ op' = "reset"]_vars
    /\ [][op' = "reset" => wave' = 1 /\ enemy_speed' = 50]_vars

\* next_wave has been called twice and a 2 s frame has run at the speed of
\* wave 3.
C21_Witness ==
    /\ op = "update"
    /\ frame.dt = 4
    /\ wave = 3
    /\ enemy_speed = 90

(***************************************************************************)
(* C22: for every wave number n >= 1 no enemy of the grid generate_wave(n) *)
(* returns has breached the defender line: every generated y is at most    *)
(* SCREEN_HEIGHT - DEFENDER_LINE = 500.                                    *)
(***************************************************************************)
C22_FreshWaveBehindDefenderLine ==
    op = "generate_wave" =>
        \A k \in 1..Len(enemies) : ~ has_breached_defender_line(enemies[k])

(***************************************************************************)
(* main.rs: bullets in flight.  The game is in Playing with no enemy left  *)
(* (update does not refill the collection), the player moves and fires at  *)
(* most MaxShots times, and the host keeps calling update: frames with     *)
(* dt > 0 keep occurring (weak fairness of TickingFrame).                  *)
(***************************************************************************)
InitFlight ==
    /\ player_x = SCREEN_WIDTH \div 2
    /\ bullets = <<>>
    /\ enemies = <<>>
    /\ enemy_direction = 1
    /\ enemy_speed = INITIAL_ENEMY_SPEED
    /\ wave = 1
    /\ state = "Playing"
    /\ state_before = "Playing"
    /\ ticks = 0
    /\ shots = 0
    /\ frame = NoFrame
    /\ IdleCall
    /\ IdleDamage
    /\ op = "new"

\* key_down_event, KeyCode::Space, counted.
Fire ==
    /\ shots < MaxShots
    /\ shoot
    /\ shots' = shots + 1
    /\ state_before' = state
    /\ op' = "shoot"
    /\ UNCHANGED <<ticks, frame, callVars, damageVars>>

\* A frame in which time has passed.
TickingFrame ==
    \E dt \in FrameDts \ {0}, left \in BOOLEAN, right \in BOOLEAN : Update(dt, left, right)

NextFlight ==
    \/ \E dt \in FrameDts, left \in BOOLEAN, right \in BOOLEAN : Update(dt, left, right)
    \/ Fire

SpecFlight == InitFlight /\ [][NextFlight]_vars /\ WF_vars(TickingFrame)

(***************************************************************************)
(* C23: a bullet keeps its x for its whole life and its y never increases  *)
(* (every bullet after a step is the bullet just fired or a bullet of      *)
(* before the step, at the same x and not lower on the screen); and while  *)
(* the game is in Playing and frames with dt > 0 keep occurring no bullet  *)
(* stays live forever: whenever bullets are in flight, the collection is   *)
(* empty again later.                                                      *)
(***************************************************************************)
C23_BulletsFlyUpAndLeave ==
    /\ [][\A m \in 1..Len(bullets') :
              \/ op' = "shoot" /\ m = Len(bullets')
              \/ \E j \in 1..Len(bullets) :
                    /\ bullets'[m].x = bullets[j].x
                    /\ bullets'[m].y <= bullets[j].y]_vars
    /\ (bullets # <<>>) ~> (bullets = <<>>)

\* Both shots have been fired and a frame with dt > 0 has removed the last
\* bullet in flight.
C23_Witness ==
    /\ op = "update"
    /\ state = "Playing"
    /\ frame.dt > 0
    /\ shots = MaxShots
    /\ bullets = <<>>

(***************************************************************************)
(* C24: the bullet-removal pass of process_collisions never removes at an  *)
(* invalid index: after sort and dedup the recorded indices are ascending  *)
(* and distinct and all smaller than the bullet count, removing them from  *)
(* the back deletes exactly the recorded bullets, and the number of        *)
(* bullets removed is at most the number of enemies hit, also when one     *)
(* bullet was recorded for several enemies.                                *)
(***************************************************************************)
C24_RemovalIndicesValid ==
    AfterCall =>
        /\ \A a, b \in 1..Len(bullets_to_remove) :
              a < b => bullets_to_remove[a] < bullets_to_remove[b]
        /\ \A a \in 1..Len(bullets_to_remove) :
              bullets_to_remove[a] >= 0 /\ bullets_to_remove[a] < Len(bullets_in)
        /\ bullets = Omit(bullets_in, {bullets_to_remove[a] + 1 : a \in 1..Len(bullets_to_remove)})
        /\ Len(bullets) = Len(bullets_in) - Len(bullets_to_remove)
        /\ Len(bullets_to_remove) <= Cardinality(HitEnemies)

\* The first of two bullets was in range of both enemies and was recorded
\* for both; it has been removed once and the other bullet is left.
C24_Witness ==
    /\ AfterCall
    /\ Len(enemies_in) = 2
    /\ Len(bullets_in) = 2
    /\ \A k \in 1..2 : FirstInRange(bullets_in, enemies_in[k]) = 1
    /\ bullets_to_remove = <<0>>
    /\ bullets = <<bullets_in[2]>>

====
